---- MODULE Spec2Model ----
(***************************************************************************)
(* Model of shader_search_3: the JSON file repositories                    *)
(* (repositories.py), the pydantic models they store (models.py) and the   *)
(* callers that use one repository object from several threads.            *)
(*                                                                         *)
(* A repository owns one backing document and one threading.Lock.  _read   *)
(* and _write each take the lock for their own body only; create, update   *)
(* and delete call _read, work on the list they got, and call _write.      *)
(***************************************************************************)
EXTENDS Integers, Sequences, FiniteSets, TLC

\* ------------------------------------------------------------------ bounds

\* Threads that call into the repository objects.
NumCallers == 2
\* create calls accepted over a run (the document never grows beyond this).
MaxCreates == 2
\* uuid4() calls over a run.
MaxUuid == 1
\* Calls of the event loop over a run.
MaxCalls == 4
\* Calls of all threads together over a run.
MaxThreadCalls == 3
\* Calls over a run that starts from documents found on disk.
MaxFoundCalls == 3
\* Calls of all threads together over a run on both repositories.
MaxFairCalls == 2
\* Rows and cells of a frame, frames of a test case, declared width and
\* height: 0 to MaxDim.
MaxDim == 2
\* Test cases constructed over a run.
MaxConstructions == 2
\* Calls over a run with payloads of every kind.
MaxPayloadCalls == 3
Callers == 1..NumCallers

\* ------------------------------------------------------------------ values

\* Python's None.  No string of the model's input sets is spelled like this.
None == "None"

\* `x or y` on an Optional[str]: None and the empty string are falsy.
Truthy(s) == s # None /\ s # ""

\* uuid4(): the n-th call of a run returns a token no earlier call returned
\* and no client can have supplied before it was handed out.
UuidPool == <<"u1", "u2", "u3", "u4", "u5", "u6">>
uuid4(n) == UuidPool[n + 1]

\* Ids a client makes up itself.
UserIds == {"a"}
Names == {"A", "B"}
Descriptions == {None, "desc"}
Codes == {"class Sim"}
RuleSets == {"{}"}

\* The thread of the event loop: main.py's handlers are coroutines that call
\* the repositories without awaiting, so the server runs one call at a time.
LoopThread == {1}

Families == {"configs", "groups"}

\* ------------------------------------------------------------------ models.py

\* A frame cell as a client writes it: a bare number, [scalar |-> v], or a
\* list or tuple of numbers, [list |-> <<...>>].
IsList(cell) == "list" \in DOMAIN cell

Take(s, n) == [i \in 1..(IF Len(s) < n THEN Len(s) ELSE n) |-> s[i]]

RECURSIVE PadZero(_)
PadZero(vec) == IF Len(vec) < 4 THEN PadZero(Append(vec, 0)) ELSE vec

\* normalize_frames as it would be if it filled a scalar's vector with the
\* scalar.
normalize_cell_broadcast(cell) ==
    IF IsList(cell)
    THEN [list |-> PadZero(Take(cell.list, 4))]
    ELSE [list |-> <<cell.scalar, cell.scalar, cell.scalar, cell.scalar>>]

normalize_cell(cell) ==
    IF IsList(cell)
    THEN [list |-> PadZero(Take(cell.list, 4))]
    ELSE [list |-> <<cell.scalar, 0, 0, 0>>]

\* TestCaseBase.normalize_frames, for a non-empty `frames` (the caller raises
\* on an empty one).
normalize_frames(frames) ==
    [f \in DOMAIN frames |->
        [r \in DOMAIN frames[f] |->
            [c \in DOMAIN frames[f][r] |-> normalize_cell(frames[f][r][c])]]]

\* ensure_dimensions_match as it would be if it compared the declared width
\* and height with the first frame and looked at no other frame.
ensure_first_frame_matches(width, height, frames) ==
    LET frame_height == Len(frames[1])
        frame_width == IF Len(frames[1]) > 0 THEN Len(frames[1][1]) ELSE 0
    IN  /\ height = frame_height
        /\ width = frame_width
        /\ \A r \in DOMAIN frames[1] :
              /\ Len(frames[1][r]) = frame_width
              /\ \A c \in DOMAIN frames[1][r] : Len(frames[1][r][c].list) = 4

\* TestCaseBase.ensure_dimensions_match: TRUE when it returns self, FALSE
\* when it raises.
ensure_dimensions_match(width, height, frames) ==
    LET frame_height == Len(frames[1])
        frame_width == IF Len(frames[1]) > 0 THEN Len(frames[1][1]) ELSE 0
    IN  /\ height = frame_height
        /\ width = frame_width
        /\ \A f \in DOMAIN frames :
              /\ Len(frames[f]) = frame_height
              /\ \A r \in DOMAIN frames[f] :
                    /\ Len(frames[f][r]) = frame_width
                    /\ \A c \in DOMAIN frames[f][r] :
                          Len(frames[f][r][c].list) = 4

\* Construction of a TestCaseBase subclass from keyword arguments `kw`
\* succeeds: the field constraints, the frames validator, the model validator.
TestCaseValid(kw) ==
    /\ kw.width > 0
    /\ kw.height > 0
    /\ Len(kw.frames) > 0
    /\ ensure_dimensions_match(kw.width, kw.height, normalize_frames(kw.frames))

\* TestCaseCreate(**kw): id is Optional.
TestCaseCreate(kw) ==
    [cls |-> "TestCaseCreate", id |-> kw.id, name |-> kw.name,
     width |-> kw.width, height |-> kw.height,
     frames |-> normalize_frames(kw.frames)]

\* TestCase(id=test_id, **kw).
TestCase(test_id, kw) ==
    [cls |-> "TestCase", id |-> test_id, name |-> kw.name,
     width |-> kw.width, height |-> kw.height,
     frames |-> normalize_frames(kw.frames)]

\* EvolutionConfig(id=config_id, **kw).
EvolutionConfig(config_id, kw) ==
    [cls |-> "EvolutionConfig", id |-> config_id, name |-> kw.name,
     description |-> kw.description,
     grid_simulation_code |-> kw.grid_simulation_code,
     rule_set |-> kw.rule_set]

\* TestCaseGroup(id=group_id, tests=tests, **kw).
TestCaseGroup(group_id, tests, kw) ==
    [cls |-> "TestCaseGroup", id |-> group_id, name |-> kw.name,
     description |-> kw.description, tests |-> tests]

\* BaseModel.model_dump(): the object as a dict, nested models as dicts.
TestDump(t) ==
    [id |-> t.id, name |-> t.name, width |-> t.width, height |-> t.height,
     frames |-> t.frames]

model_dump(obj) ==
    IF obj.cls \in {"EvolutionConfig", "EvolutionConfigCreate"}
    THEN [id |-> obj.id, name |-> obj.name, description |-> obj.description,
          grid_simulation_code |-> obj.grid_simulation_code,
          rule_set |-> obj.rule_set]
    ELSE IF obj.cls \in {"TestCaseGroup", "TestCaseGroupCreate"}
    THEN [id |-> obj.id, name |-> obj.name, description |-> obj.description,
          tests |-> [i \in DOMAIN obj.tests |-> TestDump(obj.tests[i])]]
    ELSE TestDump(obj)

\* model_cls.model_validate(item) for the dicts the repositories store.
model_validate(model_cls, item) ==
    IF model_cls = "EvolutionConfig"
    THEN EvolutionConfig(item.id, item)
    ELSE TestCaseGroup(item.id,
                       [i \in DOMAIN item.tests |->
                           TestCase(item.tests[i].id, item.tests[i])],
                       item)

\* ------------------------------------------------------------------ inputs

\* Test cases as clients send them.
RawTests ==
    { [id |-> "t1", name |-> "test", width |-> 1, height |-> 1,
       frames |-> << << << [scalar |-> 1] >> >> >>],
      [id |-> None, name |-> "test", width |-> 1, height |-> 1,
       frames |-> << << << [list |-> <<2, 3>>] >> >> >>] }

TestPayloads == { TestCaseCreate(kw) : kw \in { r \in RawTests : TestCaseValid(r) } }

\* What a payload says besides its id.
ConfigBodies ==
    { [name |-> "A", description |-> "desc"], [name |-> "B", description |-> None] }

GroupBodies ==
    { [name |-> "A", description |-> "desc",
       tests |-> << CHOOSE t \in TestPayloads : t.id # None >>],
      [name |-> "B", description |-> None,
       tests |-> << CHOOSE t \in TestPayloads : t.id = None >>] }

EvolutionConfigCreate(id, body) ==
    [cls |-> "EvolutionConfigCreate", id |-> id, name |-> body.name,
     description |-> body.description,
     grid_simulation_code |-> CHOOSE c \in Codes : TRUE,
     rule_set |-> CHOOSE r \in RuleSets : TRUE]

TestCaseGroupCreate(id, body) ==
    [cls |-> "TestCaseGroupCreate", id |-> id, name |-> body.name,
     description |-> body.description, tests |-> body.tests]

\* The payloads of the event loop's calls, with ids from `ids`.
Payloads(fam, ids) ==
    IF fam = "configs"
    THEN { EvolutionConfigCreate(i, b) : i \in ids, b \in ConfigBodies }
    ELSE { TestCaseGroupCreate(i, b) : i \in ids, b \in GroupBodies }

\* The payloads of the threads' calls: one body, ids from `ids`.
ThreadPayloads(fam, ids) ==
    IF fam = "configs"
    THEN { EvolutionConfigCreate(i, [name |-> "A", description |-> None]) :
              i \in ids }
    ELSE { TestCaseGroupCreate(i, [name |-> "A", description |-> None, tests |-> <<>>]) :
              i \in ids }

\* Cells as callers write them, a number or a list of 0 to 5 numbers, two by
\* two.
RawCellPairs ==
    { <<[scalar |-> 5], [list |-> <<7, 8>>]>>,
      <<[list |-> <<>>], [list |-> <<7>>]>>,
      <<[list |-> <<1, 2, 3, 4>>], [list |-> <<1, 2, 3, 4, 9>>]>>,
      <<[scalar |-> 5], [scalar |-> 5]>> }

Dims == 0..MaxDim

\* A frame of h rows of w cells, its cells taken in turn from cells[1] and
\* cells[2].
Grid(h, w, cells) ==
    [r \in 1..h |-> [c \in 1..w |-> cells[((r + c) % 2) + 1]]]

\* `frames` arguments: up to two frames of one shape; two frames of two
\* shapes; one frame whose two rows have two lengths.
RawFrames ==
    { [f \in 1..n |-> Grid(h, w, cells)] :
          n \in Dims, h \in Dims, w \in Dims, cells \in RawCellPairs }
    \cup { << Grid(h, w, <<[scalar |-> 5], [scalar |-> 5]>>),
              Grid(h2, w2, <<[scalar |-> 5], [scalar |-> 5]>>) >> :
              h \in Dims, w \in Dims, h2 \in Dims, w2 \in Dims }
    \cup { << << [c \in 1..w |-> [scalar |-> 5]], [c \in 1..w2 |-> [scalar |-> 5]] >> >> :
              w \in Dims, w2 \in Dims }

\* Keyword arguments of TestCase(...).
RawTestCases ==
    { [id |-> "t1", name |-> "test", width |-> w, height |-> h, frames |-> fr] :
          w \in Dims, h \in Dims, fr \in RawFrames }

\* A test payload as an object: TestCaseCreate(**kw) when kw is valid.  The
\* models do not validate assignments, so an object a caller has changed
\* after constructing it (or built with model_construct) carries whatever
\* fields it was given; the repositories get such objects too.
TestObject(kw) ==
    [cls |-> "TestCaseCreate", id |-> kw.id, name |-> kw.name,
     width |-> kw.width, height |-> kw.height, frames |-> kw.frames]

\* Tests no TestCase can be constructed from: a declared width the frames do
\* not have, no frame at all, a height of zero.
WrongWidthTest ==
    TestObject([id |-> "t2", name |-> "test", width |-> 2, height |-> 1,
                frames |-> << << << [list |-> <<1, 0, 0, 0>>] >> >> >>])
NoFramesTest ==
    TestObject([id |-> None, name |-> "test", width |-> 1, height |-> 1,
                frames |-> <<>>])
InvalidTests == {WrongWidthTest, NoFramesTest}

ValidTest(id) ==
    TestCaseCreate([id |-> id, name |-> "test", width |-> 1, height |-> 1,
                    frames |-> << << << [scalar |-> 1] >> >> >>])

\* Payloads create and update raise a validation error for: a config and a
\* group without the required name, groups with a test of InvalidTests.
InvalidPayloads ==
    [fam \in Families |->
        IF fam = "configs"
        THEN { EvolutionConfigCreate("a", [name |-> None, description |-> "desc"]) }
        ELSE { TestCaseGroupCreate("a", [name |-> None, description |-> None,
                                         tests |-> <<ValidTest("t1")>>]),
               TestCaseGroupCreate("a", [name |-> "A", description |-> None,
                                         tests |-> <<ValidTest("t1"), WrongWidthTest>>]),
               TestCaseGroupCreate("a", [name |-> "B", description |-> None,
                                         tests |-> <<NoFramesTest>>]) }]

\* Valid payloads with more than one test, and with a test whose id is the
\* empty string.
TestListPayloads ==
    [fam \in Families |->
        IF fam = "configs"
        THEN { EvolutionConfigCreate("a", [name |-> "A", description |-> None]) }
        ELSE { TestCaseGroupCreate("a", [name |-> "A", description |-> None,
                                         tests |-> <<ValidTest("t1"), ValidTest(None)>>]),
               TestCaseGroupCreate("a", [name |-> "B", description |-> None,
                                         tests |-> <<ValidTest(""), ValidTest("t1")>>]),
               TestCaseGroupCreate("a", [name |-> "B", description |-> "desc",
                                         tests |-> <<ValidTest("t2"), ValidTest("t1")>>]) }]

model_cls(fam) == IF fam = "configs" THEN "EvolutionConfig" ELSE "TestCaseGroup"

\* ------------------------------------------------------------------ json

JNull == [t |-> "null"]
JStr(s) == [t |-> "string", s |-> s]
JNum(n) == [t |-> "number", n |-> n]
JOpt(v) == IF v = None THEN JNull ELSE JStr(v)
UnOpt(j) == IF j.t = "null" THEN None ELSE j.s

EncodeFrames(frames) ==
    [f \in DOMAIN frames |->
        [r \in DOMAIN frames[f] |->
            [c \in DOMAIN frames[f][r] |->
                [k \in DOMAIN frames[f][r][c].list |-> JNum(frames[f][r][c].list[k])]]]]

DecodeFrames(jf) ==
    [f \in DOMAIN jf |->
        [r \in DOMAIN jf[f] |->
            [c \in DOMAIN jf[f][r] |->
                [list |-> [k \in DOMAIN jf[f][r][c] |-> jf[f][r][c][k].n]]]]]

EncodeTest(d) ==
    [id |-> JOpt(d.id), name |-> JStr(d.name), width |-> JNum(d.width),
     height |-> JNum(d.height), frames |-> EncodeFrames(d.frames)]

DecodeTest(j) ==
    [id |-> UnOpt(j.id), name |-> j.name.s, width |-> j.width.n,
     height |-> j.height.n, frames |-> DecodeFrames(j.frames)]

\* One dict of the list as a JSON object, and back.
Encode(d) ==
    IF "tests" \in DOMAIN d
    THEN [id |-> JOpt(d.id), name |-> JStr(d.name),
          description |-> JOpt(d.description),
          tests |-> [i \in DOMAIN d.tests |-> EncodeTest(d.tests[i])]]
    ELSE [id |-> JOpt(d.id), name |-> JStr(d.name),
          description |-> JOpt(d.description),
          grid_simulation_code |-> JStr(d.grid_simulation_code),
          rule_set |-> [t |-> "object", s |-> d.rule_set]]

Decode(j) ==
    IF "tests" \in DOMAIN j
    THEN [id |-> UnOpt(j.id), name |-> j.name.s,
          description |-> UnOpt(j.description),
          tests |-> [i \in DOMAIN j.tests |-> DecodeTest(j.tests[i])]]
    ELSE [id |-> UnOpt(j.id), name |-> j.name.s,
          description |-> UnOpt(j.description),
          grid_simulation_code |-> j.grid_simulation_code.s,
          rule_set |-> j.rule_set.s]

\* The text of the backing document.  "array": a JSON array of objects;
\* "empty": a file of length zero (as open(..., "w") leaves it before the
\* text is written); "object": JSON whose root is no array; "garbage": text
\* json.loads rejects.
EmptyArray == [kind |-> "array", body |-> <<>>]
Truncated == [kind |-> "empty", body |-> <<>>]

\* A document whose root is a JSON object, and one that is no JSON.
ObjectRoot == [kind |-> "object", body |-> <<>>]
NotJson == [kind |-> "garbage", body |-> <<>>]

\* json.dumps(list(data), indent=2)
json_dumps(data) == [kind |-> "array", body |-> [i \in DOMAIN data |-> Encode(data[i])]]

\* _read as it would be if it took every root that is no list for an empty
\* store.
read_document_lenient(text) ==
    LET raw == IF text.kind = "empty" THEN EmptyArray ELSE text
    IN  IF raw.kind = "array"
        THEN [exc |-> None, data |-> [i \in DOMAIN raw.body |-> Decode(raw.body[i])]]
        ELSE [exc |-> None, data |-> <<>>]

\* _read as it would be without the `except json.JSONDecodeError` clause.
read_document_strict(text) ==
    LET raw == IF text.kind = "empty" THEN EmptyArray ELSE text
    IN  IF raw.kind = "array"
        THEN [exc |-> None, data |-> [i \in DOMAIN raw.body |-> Decode(raw.body[i])]]
        ELSE IF raw.kind = "garbage"
        THEN [exc |-> "JSONDecodeError", data |-> <<>>]
        ELSE [exc |-> "ValueError", data |-> <<>>]

\* The body of _read under the lock plus its isinstance check:
\* [exc |-> None or "ValueError", data |-> the list].
read_document(text) ==
    LET raw == IF text.kind = "empty" THEN EmptyArray ELSE text
    IN  IF raw.kind = "array"
        THEN [exc |-> None, data |-> [i \in DOMAIN raw.body |-> Decode(raw.body[i])]]
        ELSE IF raw.kind = "garbage"
        THEN [exc |-> None, data |-> <<>>]
        ELSE [exc |-> "ValueError", data |-> <<>>]

\* JSONRepository._find_index; 0 stands for None.
_find_index(items, item_id) ==
    IF \E i \in DOMAIN items : items[i].id = item_id
    THEN CHOOSE i \in DOMAIN items :
            /\ items[i].id = item_id
            /\ \A j \in 1..(i - 1) : items[j].id # item_id
    ELSE 0

\* delete as it would be if it dropped every record with the id of the one
\* at idx.
PopMatching(items, idx) ==
    SelectSeq(items, LAMBDA item : item.id # items[idx].id)

\* items.pop(idx)
Pop(items, idx) ==
    [i \in 1..(Len(items) - 1) |-> IF i < idx THEN items[i] ELSE items[i + 1]]

\* Test payloads that make _materialize_tests call uuid4().
NeedsUuid(tests) == { i \in DOMAIN tests : ~Truthy(tests[i].id) }

\* TestCaseGroupRepository._materialize_tests, with `n` uuid4() calls made
\* before it.
RECURSIVE MaterializeFrom(_, _, _)
MaterializeFrom(tests, i, n) ==
    IF i > Len(tests) THEN <<>>
    ELSE LET gen == ~Truthy(tests[i].id)
             test_id == IF gen THEN uuid4(n) ELSE tests[i].id
         IN  <<TestCase(test_id, model_dump(tests[i]))>>
             \o MaterializeFrom(tests, i + 1, IF gen THEN n + 1 ELSE n)

\* _materialize_tests as it would be if it gave every test a new id.
RECURSIVE MaterializeFresh(_, _, _)
MaterializeFresh(tests, i, n) ==
    IF i > Len(tests) THEN <<>>
    ELSE <<TestCase(uuid4(n), model_dump(tests[i]))>>
         \o MaterializeFresh(tests, i + 1, n + 1)

_materialize_tests_fresh(tests, n) == MaterializeFresh(tests, 1, n)

_materialize_tests(tests, n) == MaterializeFrom(tests, 1, n)

\* The first test payload whose TestCase(...) raises in _materialize_tests;
\* Len(tests) + 1 when none does.
FirstInvalid(tests) ==
    IF \E i \in DOMAIN tests : ~TestCaseValid(model_dump(tests[i]))
    THEN CHOOSE i \in DOMAIN tests :
            /\ ~TestCaseValid(model_dump(tests[i]))
            /\ \A j \in 1..(i - 1) : TestCaseValid(model_dump(tests[j]))
    ELSE Len(tests) + 1

\* _materialize_tests(payload.tests) returns (every TestCase(...) of line 114
\* is constructed); always so for the configs, which have no tests.
TestsValid(fam, payload) ==
    fam = "groups" => FirstInvalid(payload.tests) > Len(payload.tests)

\* create and update as they would be if they took the payload's fields as
\* they are, without constructing TestCase, TestCaseGroup or EvolutionConfig
\* from them.
RecordValidUnchecked(fam, payload) == TRUE

\* The constructors of lines 87, 98, 114, 119 and 131 return: every test is
\* a valid TestCase and the required `name: str` is a string.
RecordValid(fam, payload) ==
    /\ TestsValid(fam, payload)
    /\ payload.name # None

\* uuid4() calls one create or update of `payload` makes in
\* _materialize_tests: one for each test without an id, up to and including
\* the first test whose construction raises.
UuidCalls(fam, payload) ==
    (IF fam = "groups"
     THEN Cardinality({ i \in NeedsUuid(payload.tests) :
                          i <= FirstInvalid(payload.tests) })
     ELSE 0)

\* uuid4() calls create makes: those of _materialize_tests and, when that
\* returns, `payload.id or str(uuid4())`.
CreateUuidCalls(fam, payload) ==
    UuidCalls(fam, payload)
        + (IF TestsValid(fam, payload) /\ ~Truthy(payload.id) THEN 1 ELSE 0)

\* create as it would be if it always generated the id.
NewRecordFreshId(fam, payload, n) ==
    IF fam = "configs"
    THEN EvolutionConfig(uuid4(n), model_dump(payload))
    ELSE TestCaseGroup(uuid4(n + UuidCalls(fam, payload)),
                       _materialize_tests(payload.tests, n),
                       model_dump(payload))

\* The record create builds (lines 87 and 118-119), with `n` uuid4() calls
\* made before.
NewRecord(fam, payload, n) ==
    IF fam = "configs"
    THEN EvolutionConfig(IF Truthy(payload.id) THEN payload.id ELSE uuid4(n),
                         model_dump(payload))
    ELSE LET k == UuidCalls(fam, payload)
         IN  TestCaseGroup(IF Truthy(payload.id) THEN payload.id ELSE uuid4(n + k),
                           _materialize_tests(payload.tests, n),
                           model_dump(payload))

\* update as it would be if it took the id from the payload when it has one.
UpdatedRecordPayloadId(fam, item_id, payload, n) ==
    LET new_id == IF Truthy(payload.id) THEN payload.id ELSE item_id
    IN  IF fam = "configs"
        THEN EvolutionConfig(new_id, model_dump(payload))
        ELSE TestCaseGroup(new_id, _materialize_tests(payload.tests, n),
                           model_dump(payload))

\* The record update builds (lines 98 and 130-131).
UpdatedRecord(fam, item_id, payload, n) ==
    IF fam = "configs"
    THEN EvolutionConfig(item_id, model_dump(payload))
    ELSE TestCaseGroup(item_id, _materialize_tests(payload.tests, n),
                       model_dump(payload))

\* ------------------------------------------------------------------ state

VARIABLES
    file,            \* family -> text of its backing document
    lock,            \* family -> caller holding JSONRepository._lock, 0 when free
    pc,              \* caller -> where it is in its call
    call,            \* caller -> [op, fam, id, payload] of its call
    obj,             \* caller -> the model object its call has built
    items,           \* caller -> the list its call got from _read
    res,             \* caller -> what its call returned or raised
    uuidCount,       \* uuid4() calls made so far
    uuidPlanned,     \* uuid4() calls made or still to be made by accepted calls
    committed,       \* family -> the text the last _write that returned (or __init__) left
    createsCalled,   \* create calls accepted so far
    createsReturned, \* family -> create calls that have returned a record
    deleteCalled,    \* family -> a delete call has been accepted
    nCalls,          \* calls accepted so far
    overlap,         \* some call was accepted while another was in progress
    prev             \* the call that returned last, when it ran alone

vars == <<file, lock, pc, call, obj, items, res, uuidCount, uuidPlanned,
          committed, createsCalled, createsReturned, deleteCalled,
          nCalls, overlap, prev>>

NoCall == [op |-> "none"]
NoObj == [cls |-> "none"]
Pending == [kind |-> "pending"]
Value(o) == [kind |-> "value", value |-> o]
NotFound == [kind |-> "None"]
Bool(b) == [kind |-> "bool", value |-> b]
ListOf(l) == [kind |-> "list", value |-> l]
Raise(e) == [kind |-> "raise", exc |-> e]

\* The status code of the response a route handler of main.py makes of what
\* its repository call returned or raised: 404 for None from get, for
\* KeyError from update and for False from delete; an exception no handler
\* catches is a server error, a body that is no payload a 422.
status_code(op, r) ==
    IF r.kind = "raise"
    THEN (IF r.exc = "KeyError" /\ op = "update" THEN 404
          ELSE IF r.exc = "RequestValidationError" THEN 422
          ELSE 500)
    ELSE IF op = "get" THEN (IF r = NotFound THEN 404 ELSE 200)
    ELSE IF op = "delete" THEN (IF r = Bool(TRUE) THEN 204 ELSE 404)
    ELSE IF op = "create" THEN 201
    ELSE 200

\* Ids a client can put in a payload or a path: its own, and every id a
\* response has shown it.
KnownIds == UserIds \cup { UuidPool[i] : i \in 1..uuidCount }

\* JSONRepository.__init__ on a path with no file: the document is "[]".
Init ==
    /\ file = [f \in Families |-> EmptyArray]
    /\ lock = [f \in Families |-> 0]
    /\ pc = [p \in Callers |-> "idle"]
    /\ call = [p \in Callers |-> NoCall]
    /\ obj = [p \in Callers |-> NoObj]
    /\ items = [p \in Callers |-> <<>>]
    /\ res = [p \in Callers |-> Pending]
    /\ uuidCount = 0
    /\ uuidPlanned = 0
    /\ committed = [f \in Families |-> EmptyArray]
    /\ createsCalled = 0
    /\ createsReturned = [f \in Families |-> 0]
    /\ deleteCalled = [f \in Families |-> FALSE]
    /\ nCalls = 0
    /\ overlap = FALSE
    /\ prev = NoCall

Active(p) == pc[p] # "idle"

\* What every accepted call does to the bookkeeping.
Accept(p, c, r) ==
    /\ pc[p] = "idle"
    /\ nCalls' = nCalls + 1
    /\ call' = [call EXCEPT ![p] = c]
    /\ overlap' = (\E q \in Callers \ {p} : Active(q))
    /\ res' = [res EXCEPT ![p] = r]
    /\ items' = [items EXCEPT ![p] = <<>>]

\* ------------------------------------------------------------------ calls

\* create(payload) up to its call of _read: the record is built first
\* (line 87; lines 118-119 for a group), and a constructor that raises ends
\* the call there.
Create(p, fam, payload) ==
    LET need == CreateUuidCalls(fam, payload)
        valid == RecordValid(fam, payload)
    IN  /\ createsCalled < MaxCreates
        /\ uuidPlanned + need <= MaxUuid
        /\ Accept(p, [op |-> "create", fam |-> fam, id |-> None, payload |-> payload],
                  IF valid THEN Pending ELSE Raise("ValidationError"))
        /\ obj' = [obj EXCEPT ![p] =
                     IF valid THEN NewRecord(fam, payload, uuidCount) ELSE NoObj]
        /\ uuidCount' = uuidCount + need
        /\ uuidPlanned' = uuidPlanned + need
        /\ createsCalled' = createsCalled + 1
        /\ pc' = [pc EXCEPT ![p] = IF valid THEN "read" ELSE "returned"]
        /\ UNCHANGED <<file, lock, committed, createsReturned, deleteCalled, prev>>

\* update(item_id, payload) up to its call of _read.
Update(p, fam, item_id, payload) ==
    LET need == UuidCalls(fam, payload)
    IN  /\ uuidPlanned + need <= MaxUuid
        /\ Accept(p, [op |-> "update", fam |-> fam, id |-> item_id, payload |-> payload], Pending)
        /\ uuidPlanned' = uuidPlanned + need
        /\ pc' = [pc EXCEPT ![p] = "read"]
        /\ UNCHANGED <<file, lock, obj, uuidCount, committed, createsCalled,
                       createsReturned, deleteCalled, prev>>

\* delete(item_id) up to its call of _read.
Delete(p, fam, item_id) ==
    /\ Accept(p, [op |-> "delete", fam |-> fam, id |-> item_id, payload |-> NoObj], Pending)
    /\ deleteCalled' = [deleteCalled EXCEPT ![fam] = TRUE]
    /\ pc' = [pc EXCEPT ![p] = "read"]
    /\ UNCHANGED <<file, lock, obj, uuidCount, uuidPlanned, committed,
                   createsCalled, createsReturned, prev>>

\* list() up to its call of _read.
List(p, fam) ==
    /\ Accept(p, [op |-> "list", fam |-> fam, id |-> None, payload |-> NoObj], Pending)
    /\ pc' = [pc EXCEPT ![p] = "read"]
    /\ UNCHANGED <<file, lock, obj, uuidCount, uuidPlanned, committed,
                   createsCalled, createsReturned, deleteCalled, prev>>

\* get(item_id) up to its call of _read.
Get(p, fam, item_id) ==
    /\ Accept(p, [op |-> "get", fam |-> fam, id |-> item_id, payload |-> NoObj], Pending)
    /\ pc' = [pc EXCEPT ![p] = "read"]
    /\ UNCHANGED <<file, lock, obj, uuidCount, uuidPlanned, committed,
                   createsCalled, createsReturned, deleteCalled, prev>>

\* _read as it would be without `with self._lock:`.
ReadAcquireNoLock(p) ==
    /\ pc[p] = "read"
    /\ pc' = [pc EXCEPT ![p] = "reading"]
    /\ UNCHANGED <<file, lock, call, obj, items, res, uuidCount, uuidPlanned,
                   committed, createsCalled, createsReturned, deleteCalled,
                   nCalls, overlap, prev>>

\* _read: `with self._lock:` is entered.
ReadAcquire(p) ==
    /\ pc[p] = "read"
    /\ lock[call[p].fam] = 0
    /\ lock' = [lock EXCEPT ![call[p].fam] = p]
    /\ pc' = [pc EXCEPT ![p] = "reading"]
    /\ UNCHANGED <<file, call, obj, items, res, uuidCount, uuidPlanned, committed,
                   createsCalled, createsReturned, deleteCalled, nCalls, overlap, prev>>

\* What the body of _read makes of the document of p's repository.
ReadResult(p) == read_document(file[call[p].fam])

\* The rest of _read in a call of method `op`: the text is read and parsed
\* and the lock is left.
ReadLeave(p, op) ==
    /\ pc[p] = "reading"
    /\ call[p].op = op
    /\ lock' = [lock EXCEPT ![call[p].fam] = 0]
    /\ UNCHANGED <<file, call, committed, createsCalled, createsReturned,
                   deleteCalled, nCalls, overlap, prev>>

\* _read raises (line 46) and the method it was called from ends with it.
ReadRaise(p) ==
    /\ res' = [res EXCEPT ![p] = Raise(ReadResult(p).exc)]
    /\ pc' = [pc EXCEPT ![p] = "returned"]
    /\ uuidPlanned' =
          uuidPlanned - (IF call[p].op = "update"
                         THEN UuidCalls(call[p].fam, call[p].payload) ELSE 0)
    /\ UNCHANGED <<obj, items, uuidCount>>

\* create as it would be if it put the new record first.
CreatePrependStep(p, data) ==
    /\ items' = [items EXCEPT ![p] = <<model_dump(obj[p])>> \o data]
    /\ pc' = [pc EXCEPT ![p] = "write"]
    /\ UNCHANGED <<obj, res, uuidCount, uuidPlanned>>

\* create, lines 88-89 (120-121): what it does with the list _read returned.
CreateAppendStep(p, data) ==
    /\ items' = [items EXCEPT ![p] = Append(data, model_dump(obj[p]))]
    /\ pc' = [pc EXCEPT ![p] = "write"]
    /\ UNCHANGED <<obj, res, uuidCount, uuidPlanned>>

CreateAppend(p) ==
    /\ ReadLeave(p, "create")
    /\ IF ReadResult(p).exc # None
       THEN ReadRaise(p)
       ELSE CreateAppendStep(p, ReadResult(p).data)

\* update as it would be if it merged the payload into the stored record:
\* a field the payload leaves None keeps its stored value, and stored tests
\* whose id the payload does not name are kept.
UpdateMergeStep(p, data) ==
    LET fam == call[p].fam
        idx == _find_index(data, call[p].id)
        need == UuidCalls(fam, call[p].payload)
        updated == UpdatedRecord(fam, call[p].id, call[p].payload, uuidCount)
        old == data[idx]
        new == model_dump(updated)
        desc == IF new.description = None THEN old.description ELSE new.description
        merged ==
            IF fam = "configs"
            THEN [new EXCEPT !.description = desc]
            ELSE [new EXCEPT
                    !.description = desc,
                    !.tests = SelectSeq(old.tests,
                                        LAMBDA t : \A i \in DOMAIN new.tests :
                                                      new.tests[i].id # t.id)
                              \o new.tests]
    IN  IF idx = 0
        THEN /\ res' = [res EXCEPT ![p] = Raise("KeyError")]
             /\ pc' = [pc EXCEPT ![p] = "returned"]
             /\ uuidPlanned' = uuidPlanned - need
             /\ UNCHANGED <<obj, items, uuidCount>>
        ELSE /\ obj' = [obj EXCEPT ![p] = updated]
             /\ items' = [items EXCEPT ![p] = [data EXCEPT ![idx] = merged]]
             /\ uuidCount' = uuidCount + need
             /\ pc' = [pc EXCEPT ![p] = "write"]
             /\ UNCHANGED <<res, uuidPlanned>>

\* update, lines 94-99 (126-132).
UpdateReplaceStep(p, data) ==
    LET fam == call[p].fam
        idx == _find_index(data, call[p].id)
        need == UuidCalls(fam, call[p].payload)
        updated == UpdatedRecord(fam, call[p].id, call[p].payload, uuidCount)
    IN  IF idx = 0
        THEN /\ res' = [res EXCEPT ![p] = Raise("KeyError")]
             /\ pc' = [pc EXCEPT ![p] = "returned"]
             /\ uuidPlanned' = uuidPlanned - need
             /\ UNCHANGED <<obj, items, uuidCount>>
        ELSE IF ~RecordValid(fam, call[p].payload)
        THEN /\ res' = [res EXCEPT ![p] = Raise("ValidationError")]
             /\ pc' = [pc EXCEPT ![p] = "returned"]
             /\ uuidCount' = uuidCount + need
             /\ UNCHANGED <<obj, items, uuidPlanned>>
        ELSE /\ obj' = [obj EXCEPT ![p] = updated]
             /\ items' = [items EXCEPT ![p] = [data EXCEPT ![idx] = model_dump(updated)]]
             /\ uuidCount' = uuidCount + need
             /\ pc' = [pc EXCEPT ![p] = "write"]
             /\ UNCHANGED <<res, uuidPlanned>>

UpdateReplace(p) ==
    /\ ReadLeave(p, "update")
    /\ IF ReadResult(p).exc # None
       THEN ReadRaise(p)
       ELSE UpdateReplaceStep(p, ReadResult(p).data)

\* delete as it would be without the `if idx is None` return: the list is
\* written back and True returned whether or not a record was removed.
DeletePopStepSilent(p, data) ==
    LET idx == _find_index(data, call[p].id)
    IN  /\ items' = [items EXCEPT ![p] = IF idx = 0 THEN data ELSE Pop(data, idx)]
        /\ pc' = [pc EXCEPT ![p] = "write"]
        /\ UNCHANGED <<obj, res, uuidCount, uuidPlanned>>

\* delete, lines 71-75.
DeletePopStep(p, data) ==
    LET idx == _find_index(data, call[p].id)
    IN  IF idx = 0
        THEN /\ res' = [res EXCEPT ![p] = Bool(FALSE)]
             /\ pc' = [pc EXCEPT ![p] = "returned"]
             /\ UNCHANGED <<obj, items, uuidCount, uuidPlanned>>
        ELSE /\ items' = [items EXCEPT ![p] = Pop(data, idx)]
             /\ pc' = [pc EXCEPT ![p] = "write"]
             /\ UNCHANGED <<obj, res, uuidCount, uuidPlanned>>

DeletePop(p) ==
    /\ ReadLeave(p, "delete")
    /\ IF ReadResult(p).exc # None
       THEN ReadRaise(p)
       ELSE DeletePopStep(p, ReadResult(p).data)

\* list, line 62.
ListReturnStep(p, data) ==
    /\ res' = [res EXCEPT ![p] =
                 ListOf([i \in DOMAIN data |-> model_validate(model_cls(call[p].fam), data[i])])]
    /\ pc' = [pc EXCEPT ![p] = "returned"]
    /\ UNCHANGED <<obj, items, uuidCount, uuidPlanned>>

ListReturn(p) ==
    /\ ReadLeave(p, "list")
    /\ IF ReadResult(p).exc # None
       THEN ReadRaise(p)
       ELSE ListReturnStep(p, ReadResult(p).data)

\* get, lines 65-68.
GetReturnStep(p, data) ==
    LET idx == _find_index(data, call[p].id)
    IN  /\ res' = [res EXCEPT ![p] =
                     IF idx = 0 THEN NotFound
                     ELSE Value(model_validate(model_cls(call[p].fam), data[idx]))]
        /\ pc' = [pc EXCEPT ![p] = "returned"]
        /\ UNCHANGED <<obj, items, uuidCount, uuidPlanned>>

GetReturn(p) ==
    /\ ReadLeave(p, "get")
    /\ IF ReadResult(p).exc # None
       THEN ReadRaise(p)
       ELSE GetReturnStep(p, ReadResult(p).data)

\* _write: `with self._lock:` is entered, the list is serialized and
\* write_text opens the file for writing, which empties it.
WriteAcquire(p) ==
    /\ pc[p] = "write"
    /\ lock[call[p].fam] = 0
    /\ lock' = [lock EXCEPT ![call[p].fam] = p]
    /\ file' = [file EXCEPT ![call[p].fam] = Truncated]
    /\ pc' = [pc EXCEPT ![p] = "writing"]
    /\ UNCHANGED <<call, obj, items, res, uuidCount, uuidPlanned, committed,
                   createsCalled, createsReturned, deleteCalled, nCalls, overlap, prev>>

\* _write: write_text writes the text and closes the file.
WriteText(p) ==
    /\ pc[p] = "writing"
    /\ file' = [file EXCEPT ![call[p].fam] = json_dumps(items[p])]
    /\ pc' = [pc EXCEPT ![p] = "written"]
    /\ UNCHANGED <<lock, call, obj, items, res, uuidCount, uuidPlanned, committed,
                   createsCalled, createsReturned, deleteCalled, nCalls, overlap, prev>>

\* _write as it would be if it acquired the lock without `with` and did not
\* release it.
WriteReleaseKeepsLock(p) ==
    /\ pc[p] = "written"
    /\ res' = [res EXCEPT ![p] =
                 IF call[p].op = "delete" THEN Bool(TRUE) ELSE Value(obj[p])]
    /\ createsReturned' =
          [createsReturned EXCEPT ![call[p].fam] =
              IF call[p].op = "create" THEN @ + 1 ELSE @]
    /\ committed' = [committed EXCEPT ![call[p].fam] = file[call[p].fam]]
    /\ items' = [items EXCEPT ![p] = <<>>]
    /\ pc' = [pc EXCEPT ![p] = "returned"]
    /\ UNCHANGED <<file, lock, call, obj, uuidCount, uuidPlanned, createsCalled,
                   deleteCalled, nCalls, overlap, prev>>

\* _write leaves the lock and the method returns (lines 77, 91, 101).
WriteRelease(p) ==
    /\ pc[p] = "written"
    /\ lock' = [lock EXCEPT ![call[p].fam] = 0]
    /\ res' = [res EXCEPT ![p] =
                 IF call[p].op = "delete" THEN Bool(TRUE) ELSE Value(obj[p])]
    /\ createsReturned' =
          [createsReturned EXCEPT ![call[p].fam] =
              IF call[p].op = "create" THEN @ + 1 ELSE @]
    /\ committed' = [committed EXCEPT ![call[p].fam] = file[call[p].fam]]
    /\ items' = [items EXCEPT ![p] = <<>>]
    /\ pc' = [pc EXCEPT ![p] = "returned"]
    /\ UNCHANGED <<file, call, obj, uuidCount, uuidPlanned, createsCalled,
                   deleteCalled, nCalls, overlap, prev>>

\* The caller has its result and is free to call again.
Return(p) ==
    /\ pc[p] = "returned"
    /\ prev' = IF ~overlap /\ call[p].op \in {"create", "delete"}
               THEN [op |-> call[p].op, fam |-> call[p].fam, id |-> call[p].id,
                     res |-> res[p]]
               ELSE NoCall
    /\ pc' = [pc EXCEPT ![p] = "idle"]
    /\ call' = [call EXCEPT ![p] = NoCall]
    /\ obj' = [obj EXCEPT ![p] = NoObj]
    /\ res' = [res EXCEPT ![p] = Pending]
    /\ UNCHANGED <<file, lock, items, uuidCount, uuidPlanned, committed,
                   createsCalled, createsReturned, deleteCalled, nCalls, overlap>>

\* A call is made on a repository of `fams`; payloads[fam] are the payloads
\* callers send to the repository of family fam.
Calls(p, fams, payloads, budget) ==
    /\ nCalls < budget
    /\ \E fam \in fams :
          \/ \E payload \in payloads[fam] :
                \/ Create(p, fam, payload)
                \/ \E item_id \in KnownIds : Update(p, fam, item_id, payload)
          \/ \E item_id \in KnownIds :
                \/ Delete(p, fam, item_id)
                \/ Get(p, fam, item_id)
          \/ List(p, fam)

\* A call in progress takes its next step.
Steps(p) ==
    \/ ReadAcquire(p)
    \/ CreateAppend(p)
    \/ UpdateReplace(p)
    \/ DeletePop(p)
    \/ ListReturn(p)
    \/ GetReturn(p)
    \/ WriteAcquire(p)
    \/ WriteText(p)
    \/ WriteRelease(p)
    \/ Return(p)

\* The server: every call comes from the event loop's thread.
Next ==
    \E p \in LoopThread :
        \/ Calls(p, Families,
                 [fam \in Families |-> Payloads(fam, UserIds \cup {None, ""})],
                 MaxCalls)
        \/ Steps(p)

Spec == Init /\ [][Next]_vars

\* The repositories called from several threads at once.
NextThreads ==
    \E p \in Callers :
        \/ Calls(p, {"configs"},
                 [fam \in Families |-> ThreadPayloads(fam, UserIds \cup {None})],
                 MaxThreadCalls)
        \/ Steps(p)

SpecThreads == Init /\ [][NextThreads]_vars

\* A POST or PUT whose body is no valid payload: the handler's `payload`
\* argument cannot be constructed, the handler is not called and the client
\* gets the validation error.
RejectBody(p, fam, op, body) ==
    /\ ~RecordValid(fam, body)
    /\ nCalls < MaxPayloadCalls
    /\ Accept(p, [op |-> op, fam |-> fam, id |-> None, payload |-> body],
              Raise("RequestValidationError"))
    /\ pc' = [pc EXCEPT ![p] = "returned"]
    /\ UNCHANGED <<file, lock, obj, uuidCount, uuidPlanned, committed,
                   createsCalled, createsReturned, deleteCalled, prev>>

\* The server and direct callers of the repositories, one call at a time,
\* with payloads of every kind: valid, invalid, with several tests.
NextPayloads ==
    \E p \in LoopThread :
        \/ Calls(p, Families,
                 [fam \in Families |-> InvalidPayloads[fam] \cup TestListPayloads[fam]],
                 MaxPayloadCalls)
        \/ \E fam \in Families : \E body \in InvalidPayloads[fam] :
              \E op \in {"create", "update"} : RejectBody(p, fam, op, body)
        \/ Steps(p)

SpecPayloads == Init /\ [][NextPayloads]_vars

\* Both repositories called from several threads at once.
NextBoth ==
    \E p \in Callers :
        \/ Calls(p, Families,
                 [fam \in Families |-> ThreadPayloads(fam, UserIds)],
                 MaxFairCalls)
        \/ Steps(p)

\* The scheduler lets every thread that can take a step take one in the end;
\* nothing makes a client call.
SpecFair == Init /\ [][NextBoth]_vars /\ \A p \in Callers : WF_vars(Steps(p))

\* TestCase(**kw): the validators run and the object is returned, or the
\* validation error raised and no object made.
ConstructTestCase(p, kw) ==
    LET valid == TestCaseValid(kw)
    IN  /\ nCalls < MaxConstructions
        /\ Accept(p, [op |-> "TestCase", fam |-> "groups", id |-> None, payload |-> kw],
                  IF valid THEN Value(TestCase(kw.id, kw)) ELSE Raise("ValidationError"))
        /\ obj' = [obj EXCEPT ![p] = IF valid THEN TestCase(kw.id, kw) ELSE NoObj]
        /\ pc' = [pc EXCEPT ![p] = "returned"]
        /\ UNCHANGED <<file, lock, uuidCount, uuidPlanned, committed, createsCalled,
                       createsReturned, deleteCalled, prev>>

\* Test cases constructed one after another.
NextModels ==
    \E p \in LoopThread :
        \/ \E kw \in RawTestCases : ConstructTestCase(p, kw)
        \/ Return(p)

SpecModels == Init /\ [][NextModels]_vars

\* The document an earlier run of the server left after two creates, with
\* the ids "b" and "a".
StoredDocument(fam) ==
    json_dumps([i \in 1..2 |->
        model_dump(NewRecord(fam,
                             CHOOSE x \in ThreadPayloads(fam, {<<"b", "a">>[i]}) : TRUE,
                             0))])

\* The documents __init__ can find at its path (it writes "[]" only when
\* there is no file): an empty array, an array of records, a file of length
\* zero, JSON with another root, text that is no JSON.
FoundDocuments(fam) ==
    {EmptyArray, StoredDocument(fam), Truncated, ObjectRoot, NotJson}

\* JSONRepository.__init__ on paths where files exist.
InitFound ==
    /\ file \in { f \in [Families -> UNION { FoundDocuments(fam) : fam \in Families }] :
                      \A fam \in Families : f[fam] \in FoundDocuments(fam) }
    /\ committed = file
    /\ lock = [f \in Families |-> 0]
    /\ pc = [p \in Callers |-> "idle"]
    /\ call = [p \in Callers |-> NoCall]
    /\ obj = [p \in Callers |-> NoObj]
    /\ items = [p \in Callers |-> <<>>]
    /\ res = [p \in Callers |-> Pending]
    /\ uuidCount = 0
    /\ uuidPlanned = 0
    /\ createsCalled = 0
    /\ createsReturned = [f \in Families |-> 0]
    /\ deleteCalled = [f \in Families |-> FALSE]
    /\ nCalls = 0
    /\ overlap = FALSE
    /\ prev = NoCall

\* The server started on documents found on disk.
NextFound ==
    \E p \in LoopThread :
        \/ Calls(p, Families,
                 [fam \in Families |-> ThreadPayloads(fam, UserIds \cup {None})],
                 MaxFoundCalls)
        \/ Steps(p)

SpecFound == InitFound /\ [][NextFound]_vars

\* ------------------------------------------------------------------ properties

Mutating == {"create", "update", "delete"}

\* The ids of the records of a document text, in order.
DocIds(text) == [i \in DOMAIN text.body |-> UnOpt(text.body[i].id)]

\* Caller p has the list its _read returned and has not yet entered _write.
BetweenReadAndWrite(p) == call[p].op \in Mutating /\ pc[p] = "write"

\* Caller q is inside _read or _write on the document of family fam.
Accessing(q, fam) ==
    /\ pc[q] \in {"reading", "writing", "written"}
    /\ call[q].fam = fam

\* C1: a create, update or delete reads the document, changes the list and
\* rewrites the document as one atomic section: while one caller is between
\* its read and its write, no other caller of the same repository reads or
\* writes the document.
C1_AtomicReadModifyWrite ==
    \A p \in Callers : \A q \in Callers \ {p} :
        BetweenReadAndWrite(p) => ~Accessing(q, call[p].fam)

\* A list() call has returned l after running with no other call in progress.
ListedAlone(p, fam) ==
    /\ pc[p] = "returned"
    /\ call[p].op = "list"
    /\ call[p].fam = fam
    /\ res[p].kind = "list"
    /\ ~overlap

\* C2: from an empty store, once N create calls have returned and no delete
\* has been called, list() returns exactly N records, whether the creates
\* came one after another or from concurrent callers.
C2_ListLengthIsCreates ==
    \A p \in Callers : \A fam \in Families :
        (ListedAlone(p, fam) /\ ~deleteCalled[fam])
            => Len(res[p].value) = createsReturned[fam]

\* C3: no caller reads the document while another caller of the same
\* repository writes it, and the text a caller inside _read is about to
\* read is the text the last completed write (or __init__) left.
C3_ReadsSeeCompletedWrites ==
    \A p \in Callers :
        pc[p] = "reading" =>
            /\ \A q \in Callers \ {p} :
                  ~(pc[q] \in {"writing", "written"} /\ call[q].fam = call[p].fam)
            /\ file[call[p].fam] = committed[call[p].fam]
            /\ file[call[p].fam].kind = "array"

\* A list() or get() is inside _read on a document that holds a record while
\* another caller waits to rewrite that document.
C3_Witness ==
    \E p \in Callers : \E q \in Callers \ {p} :
        /\ pc[p] = "reading"
        /\ call[p].op \in {"list", "get"}
        /\ pc[q] = "write"
        /\ call[q].fam = call[p].fam
        /\ Len(file[call[p].fam].body) > 0

\* The list a _read of the text would return.
Records(text) == read_document(text).data

\* The record a create or update is writing, as the document holds it once
\* write_text is done: the last one for create, the one at the index update
\* found for update.
AppendedRecord(fam) == Records(file[fam])[Len(file[fam].body)]

\* C4: ids are unique within a store, and an id the server assigns is
\* non-empty and differs from every id already in the store.
C4_IdsUnique ==
    /\ \A fam \in Families :
          \A i, j \in DOMAIN committed[fam].body :
              i # j => DocIds(committed[fam])[i] # DocIds(committed[fam])[j]
    /\ \A p \in Callers :
          (call[p].op = "create" /\ pc[p] = "written" /\ ~Truthy(call[p].payload.id))
              => /\ obj[p].id # ""
                 /\ \A i \in DOMAIN committed[call[p].fam].body :
                       DocIds(committed[call[p].fam])[i] # obj[p].id

\* Caller p's create has the id want in the record it stored and returned.
CreatedWithId(p, want) ==
    /\ pc[p] = "written" =>
          /\ AppendedRecord(call[p].fam).id = want
          /\ obj[p].id = want
    /\ (pc[p] = "returned" /\ res[p].kind = "value") => res[p].value.id = want

\* C5 as claimed: whatever string a create payload carries as its id, the
\* record create returns and the record it appends have exactly that id.
C5_AnyExplicitIdKept ==
    \A p \in Callers :
        (call[p].op = "create" /\ call[p].payload.id # None)
            => CreatedWithId(p, call[p].payload.id)

\* C5 as amended: a non-empty id of a create payload is the id of the record
\* create returns and of the record it appends; an empty id is treated as no
\* id, and the record gets a generated, non-empty one.
C5_NonEmptyExplicitIdKept ==
    \A p \in Callers :
        call[p].op = "create" =>
            /\ Truthy(call[p].payload.id) => CreatedWithId(p, call[p].payload.id)
            /\ (call[p].payload.id = "" /\ pc[p] = "written") =>
                  /\ AppendedRecord(call[p].fam).id # ""
                  /\ \E i \in DOMAIN UuidPool :
                        AppendedRecord(call[p].fam).id = UuidPool[i]

\* A create with a non-empty id of the client's has written its record.
C5_Witness ==
    \E p \in Callers :
        /\ call[p].op = "create"
        /\ pc[p] = "written"
        /\ call[p].payload.id \in UserIds

\* C6: update on an existing id returns and stores a record with that id,
\* never the payload's, and leaves the id of every stored record as it was.
C6_UpdateKeepsId ==
    \A p \in Callers :
        call[p].op = "update" =>
            /\ pc[p] = "written" =>
                  LET fam == call[p].fam
                      idx == _find_index(Records(committed[fam]), call[p].id)
                  IN  /\ idx > 0
                      /\ DocIds(file[fam]) = DocIds(committed[fam])
                      /\ Records(file[fam])[idx] = model_dump(obj[p])
                      /\ obj[p].id = call[p].id
            /\ (pc[p] = "returned" /\ res[p].kind = "value")
                  => res[p].value.id = call[p].id

\* An update whose payload names another id than its target has returned.
C6_Witness ==
    \E p \in Callers :
        /\ call[p].op = "update"
        /\ pc[p] = "returned"
        /\ res[p].kind = "value"
        /\ Truthy(call[p].payload.id)
        /\ call[p].payload.id # call[p].id

\* Caller p's update or delete is inside _read and no record of the
\* document has the id it was given.
TargetMissing(p) ==
    /\ pc[p] = "reading"
    /\ call[p].op \in {"update", "delete"}
    /\ _find_index(Records(file[call[p].fam]), call[p].id) = 0

\* C7: update and delete on an id no stored record has leave the document
\* as it is and report failure: update raises KeyError, delete returns False.
C7_NotFoundLeavesDocument ==
    [][\A p \in Callers :
          TargetMissing(p) =>
              /\ file' = file
              /\ \/ pc'[p] = "reading"
                 \/ /\ pc'[p] = "returned"
                    /\ res'[p] = (IF call[p].op = "update"
                                  THEN Raise("KeyError") ELSE Bool(FALSE))]_vars

\* After a delete of a missing id returned False, an update of a missing id
\* has raised KeyError, on a document that holds records.
C7_Witness ==
    \E p \in Callers :
        /\ call[p].op = "update"
        /\ pc[p] = "returned"
        /\ res[p] = Raise("KeyError")
        /\ Len(file[call[p].fam].body) > 0
        /\ prev.op = "delete"
        /\ prev.fam = call[p].fam
        /\ prev.res = Bool(FALSE)

\* C8: create(payload) followed at once by get(result.id) returns a record
\* equal in every field to the one create returned, whatever the store held.
C8_CreateGetRoundTrip ==
    \A p \in Callers :
        ( /\ pc[p] = "returned"
          /\ call[p].op = "get"
          /\ ~overlap
          /\ prev.op = "create"
          /\ prev.fam = call[p].fam
          /\ prev.res.kind = "value"
          /\ call[p].id = prev.res.value.id )
            => res[p] = prev.res

\* C9: when a record with the id exists, delete(id) twice in a row returns
\* True and then False.
C9_DeleteTwice ==
    \A p \in Callers :
        ( /\ pc[p] = "returned"
          /\ call[p].op = "delete"
          /\ ~overlap
          /\ prev.op = "delete"
          /\ prev.fam = call[p].fam
          /\ prev.id = call[p].id
          /\ prev.res = Bool(TRUE) )
            => res[p] = Bool(FALSE)

\* Test t of a stored record is payload test u and nothing else.
TestIsPayload(t, u) ==
    /\ t.name = u.name
    /\ t.width = u.width
    /\ t.height = u.height
    /\ t.frames = u.frames
    /\ Truthy(u.id) => t.id = u.id

\* C10: after update(id, payload) the record stored at id is the payload's
\* fields with the original id; a group's tests are the payload's tests, one
\* for one, and none of the tests stored before.
C10_UpdateReplacesRecord ==
    \A p \in Callers :
        (call[p].op = "update" /\ pc[p] = "written") =>
            LET fam == call[p].fam
                payload == call[p].payload
                idx == _find_index(Records(committed[fam]), call[p].id)
                stored == Records(file[fam])[idx]
            IN  /\ stored.id = call[p].id
                /\ stored.name = payload.name
                /\ stored.description = payload.description
                /\ DOMAIN stored = DOMAIN model_dump(payload)
                /\ IF fam = "configs"
                   THEN /\ stored.grid_simulation_code = payload.grid_simulation_code
                        /\ stored.rule_set = payload.rule_set
                   ELSE /\ Len(stored.tests) = Len(payload.tests)
                        /\ \A i \in DOMAIN stored.tests :
                              TestIsPayload(stored.tests[i], payload.tests[i])

\* An update has rewritten a group that had a description and a test, with
\* a payload that has no description and another test.
C10_Witness ==
    \E p \in Callers :
        /\ call[p].op = "update"
        /\ pc[p] = "written"
        /\ call[p].fam = "groups"
        /\ LET old == Records(committed["groups"])
                         [_find_index(Records(committed["groups"]), call[p].id)]
           IN  /\ old.description # None
               /\ call[p].payload.description = None
               /\ old.name # call[p].payload.name
               /\ Len(old.tests) > 0
               /\ \A i \in DOMAIN call[p].payload.tests :
                     call[p].payload.tests[i].id # old.tests[1].id

\* Caller p's call is a create or an update with a payload that violates a
\* validation invariant.
InvalidCall(p) ==
    /\ call[p].op \in {"create", "update"}
    /\ call[p].payload \in InvalidPayloads[call[p].fam]

CallOn(p, ops, kind) ==
    /\ call'[p].op \in ops
    /\ file[call'[p].fam].kind = kind

\* C12: when the document is JSON whose root is no array, every operation
\* (list, get, create, update, delete) ends with the ValueError of _read for
\* its caller and the document stays as it is: no call gets to _write.
C12_NonArrayRootFails ==
    [][\A p \in Callers :
          CallOn(p, Mutating \cup {"list", "get"}, "object") =>
              /\ file' = file
              /\ pc'[p] \notin {"write", "writing", "written"}
              /\ pc'[p] = "returned" => res'[p] = Raise("ValueError")]_vars

\* A create has ended with ValueError on a document whose root is an object,
\* after another call on it ended the same way.
C12_Witness ==
    \E p \in Callers :
        /\ pc[p] = "returned"
        /\ call[p].op = "create"
        /\ res[p] = Raise("ValueError")
        /\ file[call[p].fam] = ObjectRoot
        /\ nCalls > 1

\* C13: when the document is no JSON, list() returns the empty list and
\* get(id) returns None for every id, and neither changes the document.
C13_UnparseableReadsAsEmpty ==
    [][\A p \in Callers :
          CallOn(p, {"list", "get"}, "garbage") =>
              /\ file' = file
              /\ pc'[p] = "returned" =>
                    res'[p] = (IF call'[p].op = "list" THEN ListOf(<<>>) ELSE NotFound)]_vars

\* A get has returned None and then a list has returned the empty list on
\* a document that is no JSON.
C13_Witness ==
    \E p \in Callers :
        /\ pc[p] = "returned"
        /\ call[p].op = "list"
        /\ res[p] = ListOf(<<>>)
        /\ file[call[p].fam] = NotJson
        /\ nCalls > 1

\* C14: create, update and delete never replace a document that is no JSON:
\* none of them is ever inside _write with a list made from the empty list
\* _read returned for such a document.
C14_UnparseableNeverReplaced ==
    \A p \in Callers :
        (call[p].op \in Mutating /\ pc[p] \in {"writing", "written"})
            => committed[call[p].fam] # NotJson

\* Caller p's GET-by-id, PUT or DELETE is about to look for its id: when a
\* stored record has it, GET answers 200 and PUT and DELETE go on to write;
\* when none has, each answers 404.
RespondsByExistence(p) ==
    (pc[p] = "reading" /\ call[p].op \in {"get", "update", "delete"}) =>
        IF _find_index(Records(file[call[p].fam]), call[p].id) > 0
        THEN IF call[p].op = "get"
             THEN pc'[p] = "returned" /\ status_code("get", res'[p]) = 200
             ELSE pc'[p] = "write"
        ELSE pc'[p] = "returned" /\ status_code(call[p].op, res'[p]) = 404

\* Caller p's PUT or DELETE has written: it answers 200 or 204.
RespondsAfterWrite(p) ==
    (pc[p] = "written" /\ call[p].op \in {"update", "delete"}) =>
        /\ pc'[p] = "returned"
        /\ status_code(call[p].op, res'[p]) = (IF call[p].op = "update" THEN 200 ELSE 204)

\* Caller p's DELETE has answered, right after a DELETE of the same id
\* answered 204: it answers 404.
SecondDeleteNotFound(p) ==
    ( /\ pc[p] = "returned"
      /\ call[p].op = "delete"
      /\ ~overlap
      /\ prev.op = "delete"
      /\ prev.fam = call[p].fam
      /\ prev.id = call[p].id
      /\ status_code("delete", prev.res) = 204 )
        => status_code("delete", res[p]) = 404

\* C15: GET-by-id, PUT and DELETE answer 404 exactly when no stored record
\* has the requested id and 200, 200 and 204 otherwise; DELETE of an
\* existing id followed by DELETE of the same id answers 204, then 404.
C15_StatusByExistence ==
    [][\A p \in Callers :
          /\ RespondsByExistence(p)
          /\ RespondsAfterWrite(p)
          /\ SecondDeleteNotFound(p)']_vars

\* Caller p is inside a repository call that has not returned yet.
Running(p) == pc[p] \notin {"idle", "returned"}

\* A lock is held only by a caller inside _read or _write of that family's
\* repository, and a caller outside them holds none.
LockDiscipline ==
    \A fam \in Families : \A p \in Callers :
        lock[fam] = p <=> (pc[p] \in {"reading", "writing", "written"} /\ call[p].fam = fam)

\* A caller about to enter _read or _write whose own repository's lock is
\* free can enter, whoever holds the other repository's lock.
NeverWaitsForOtherFamily ==
    \A p \in Callers :
        (pc[p] \in {"read", "write"} /\ lock[call[p].fam] = 0)
            => ENABLED (ReadAcquire(p) \/ WriteAcquire(p))

\* C16: under fair scheduling every repository call returns a result or an
\* error, with several callers on both families: no state is a deadlock,
\* every lock that is acquired is released, and a caller on one family never
\* waits for the lock of the other.
C16_EveryCallReturns ==
    /\ [](LockDiscipline /\ NeverWaitsForOtherFamily)
    /\ \A p \in Callers : Running(p) ~> (pc[p] = "returned")
    /\ \A fam \in Families : (lock[fam] # 0) ~> (lock[fam] = 0)

\* One caller is inside _write on the configs while another is inside _read
\* on the groups: each holds its own repository's lock.
C16_Witness ==
    \E p \in Callers : \E q \in Callers \ {p} :
        /\ lock["configs"] = p
        /\ pc[p] = "writing"
        /\ lock["groups"] = q
        /\ pc[q] = "reading"

\* Caller p's TestCase(**kw) has returned or raised.
Constructed(p) == pc[p] = "returned" /\ call[p].op = "TestCase"

\* kw has no frame, or a frame whose number of rows is not the declared
\* height, or a row whose length is not the declared width.
ShapeMismatch(kw) ==
    \/ Len(kw.frames) = 0
    \/ \E f \in DOMAIN kw.frames : Len(kw.frames[f]) # kw.height
    \/ \E f \in DOMAIN kw.frames : \E r \in DOMAIN kw.frames[f] :
          Len(kw.frames[f][r]) # kw.width

\* TestCase(**kw) raised and made no object.
ConstructionFailed(p) == res[p] = Raise("ValidationError") /\ obj[p] = NoObj

\* C17 as claimed: TestCase construction fails, and makes no object, when
\* frames is empty or a frame's row count differs from the declared height
\* or a row's length from the declared width; it succeeds whenever frames is
\* non-empty and every frame has exactly `height` rows of `width` cells.
C17_ConstructionByShape ==
    \A p \in Callers :
        Constructed(p) =>
            IF ShapeMismatch(call[p].payload)
            THEN ConstructionFailed(p)
            ELSE res[p].kind = "value"

\* C17 as amended: construction fails when frames is empty or a frame's
\* row count differs from the declared height or a row's length from the
\* declared width; it succeeds when width and height are positive, frames
\* is non-empty and every frame has exactly `height` rows of `width` cells.
C17_ConstructionByShapePositive ==
    \A p \in Callers :
        Constructed(p) =>
            LET kw == call[p].payload
            IN  /\ ShapeMismatch(kw) => ConstructionFailed(p)
                /\ (~ShapeMismatch(kw) /\ kw.width > 0 /\ kw.height > 0)
                      => /\ res[p].kind = "value"
                         /\ res[p].value = obj[p]
                         /\ obj[p].width = kw.width
                         /\ obj[p].height = kw.height
                         /\ Len(obj[p].frames) = Len(kw.frames)

\* A TestCase of two frames of two rows of two cells has been constructed
\* after a construction with a second frame of another shape failed.
C17_Witness ==
    \E p \in Callers :
        /\ Constructed(p)
        /\ res[p].kind = "value"
        /\ Len(call[p].payload.frames) = 2
        /\ call[p].payload.width = 2
        /\ call[p].payload.height = 2
        /\ nCalls > 1

\* What the claim says cell `raw` becomes.
ExpectedCell(raw, vec) ==
    /\ Len(vec) = 4
    /\ IF IsList(raw)
       THEN Len(raw.list) <= 4 =>
               /\ \A k \in 1..Len(raw.list) : vec[k] = raw.list[k]
               /\ \A k \in (Len(raw.list) + 1)..4 : vec[k] = 0
       ELSE vec = <<raw.scalar, 0, 0, 0>>

\* C18: in every TestCase that was constructed, every cell of every frame
\* is a vector of exactly 4 numbers: a scalar v has become [v, 0, 0, 0], a
\* list of k <= 4 values those k values followed by 4 - k zeros.
C18_CellsAreFourVectors ==
    \A p \in Callers :
        (Constructed(p) /\ res[p].kind = "value") =>
            LET raw == call[p].payload.frames
                out == res[p].value.frames
            IN  /\ DOMAIN out = DOMAIN raw
                /\ \A f \in DOMAIN raw :
                      /\ DOMAIN out[f] = DOMAIN raw[f]
                      /\ \A r \in DOMAIN raw[f] :
                            /\ DOMAIN out[f][r] = DOMAIN raw[f][r]
                            /\ \A c \in DOMAIN raw[f][r] :
                                  ExpectedCell(raw[f][r][c], out[f][r][c].list)

\* A TestCase has been constructed from frames that hold a scalar cell and
\* a list cell of two values.
C18_Witness ==
    \E p \in Callers :
        /\ Constructed(p)
        /\ res[p].kind = "value"
        /\ \E f \in DOMAIN call[p].payload.frames :
              \E r \in DOMAIN call[p].payload.frames[f] :
                 \E c, d \in DOMAIN call[p].payload.frames[f][r] :
                    /\ call[p].payload.frames[f][r][c] = [scalar |-> 5]
                    /\ call[p].payload.frames[f][r][d] = [list |-> <<7, 8>>]

\* Caller p's create or update of a group has written the document; the
\* record it stored, as _read would return it.
GroupWritten(p) ==
    /\ call[p].op \in {"create", "update"}
    /\ call[p].fam = "groups"
    /\ pc[p] = "written"

StoredGroup(p) ==
    IF call[p].op = "create"
    THEN AppendedRecord("groups")
    ELSE Records(file["groups"])[_find_index(Records(committed["groups"]), call[p].id)]

\* Every id the groups document held before the call: of groups and tests.
IdsBefore ==
    LET old == Records(committed["groups"])
    IN  { old[i].id : i \in DOMAIN old }
        \cup UNION { { old[i].tests[j].id : j \in DOMAIN old[i].tests } : i \in DOMAIN old }

\* Test i of `tests` has an id uuid4() made for it: non-empty, no other
\* test's, the group's or a client's, and none the document held.
FreshTestId(tests, i, group_id) ==
    /\ tests[i].id # ""
    /\ \E n \in DOMAIN UuidPool : tests[i].id = UuidPool[n]
    /\ \A j \in DOMAIN tests : j # i => tests[j].id # tests[i].id
    /\ tests[i].id # group_id
    /\ tests[i].id \notin IdsBefore

\* The tests of record `rec` are those of `payload`, one for one and in
\* order; a test whose payload id is in `kept` has it, the others a new one.
TestsMaterialized(rec, payload, kept) ==
    /\ Len(rec.tests) = Len(payload.tests)
    /\ \A i \in DOMAIN rec.tests :
          /\ TestIsPayload(rec.tests[i], payload.tests[i])
          /\ IF payload.tests[i].id \in kept
             THEN rec.tests[i].id = payload.tests[i].id
             ELSE FreshTestId(rec.tests, i, rec.id)

\* The ids a test payload of the model's inputs can carry.
TestIds == { "t1", "t2", "" }

\* C19 as claimed: in every group create or update returns and stores, the
\* tests are the payload's tests in length and order, a test whose payload
\* carries an id (any string) has that id, and a test without one has a new
\* non-empty id.
C19_TestIdsKeptOrFresh ==
    \A p \in Callers :
        GroupWritten(p) =>
            /\ TestsMaterialized(StoredGroup(p), call[p].payload, TestIds)
            /\ TestsMaterialized(model_dump(obj[p]), call[p].payload, TestIds)

\* C19 as amended: the same, with the id kept when it is a non-empty string;
\* a test whose id is absent or the empty string has a new non-empty id.
C19_NonEmptyTestIdsKeptOrFresh ==
    \A p \in Callers :
        GroupWritten(p) =>
            /\ TestsMaterialized(StoredGroup(p), call[p].payload, TestIds \ {""})
            /\ TestsMaterialized(model_dump(obj[p]), call[p].payload, TestIds \ {""})

\* An update has replaced the two tests of a stored group by a test without
\* an id followed by a test with one.
C19_Witness ==
    \E p \in Callers :
        /\ GroupWritten(p)
        /\ call[p].op = "update"
        /\ Len(call[p].payload.tests) = 2
        /\ ~Truthy(call[p].payload.tests[1].id)
        /\ Truthy(call[p].payload.tests[2].id)
        /\ Len(Records(committed["groups"])[1].tests) = 2

\* C20: create appends: when create has written, the document holds the
\* records it held before, unchanged and in the same order, followed by the
\* new record; and list() returns the records of the document in its
\* order, the record of the create before it last.
C20_CreateAppends ==
    \A p \in Callers :
        /\ (call[p].op = "create" /\ pc[p] = "written") =>
              Records(file[call[p].fam])
                  = Append(Records(committed[call[p].fam]), model_dump(obj[p]))
        /\ \A fam \in Families :
              ListedAlone(p, fam) =>
                  /\ Len(res[p].value) = Len(Records(file[fam]))
                  /\ \A i \in DOMAIN res[p].value :
                        model_dump(res[p].value[i]) = Records(file[fam])[i]
                  /\ (prev.op = "create" /\ prev.fam = fam /\ prev.res.kind = "value")
                        => res[p].value[Len(res[p].value)] = prev.res.value

\* list() has returned four records, the last two from the two creates
\* before it, on a document that held two records at the start.
C20_Witness ==
    \E p \in Callers : \E fam \in Families :
        /\ ListedAlone(p, fam)
        /\ Len(res[p].value) = 4
        /\ prev.op = "create"
        /\ prev.fam = fam
        /\ prev.res.kind = "value"

\* Caller p's update or delete has found its record and written the
\* document.
TargetWritten(p) ==
    /\ call[p].op \in {"update", "delete"}
    /\ pc[p] = "written"

\* C21: a successful update or delete changes only the record it targets,
\* the first whose id matches: update leaves the new record at that position
\* and the length of the store as it was, delete removes that one record
\* and shortens the store by exactly one, and every other record keeps its
\* content and its place among the others.
C21_OnlyTargetChanges ==
    \A p \in Callers :
        TargetWritten(p) =>
            LET before == Records(committed[call[p].fam])
                after == Records(file[call[p].fam])
                idx == _find_index(before, call[p].id)
            IN  /\ idx > 0
                /\ before[idx].id = call[p].id
                /\ \A i \in 1..(idx - 1) : before[i].id # call[p].id
                /\ \A i \in 1..(idx - 1) : after[i] = before[i]
                /\ IF call[p].op = "update"
                   THEN /\ Len(after) = Len(before)
                        /\ after[idx] = model_dump(obj[p])
                        /\ \A i \in (idx + 1)..Len(before) : after[i] = before[i]
                   ELSE /\ Len(after) = Len(before) - 1
                        /\ \A i \in idx..Len(after) : after[i] = before[i + 1]

\* A delete has written a store that held a record before its target and
\* two after it, one of them with the target's id.
C21_Witness ==
    \E p \in Callers :
        /\ TargetWritten(p)
        /\ call[p].op = "delete"
        /\ LET before == Records(committed[call[p].fam])
               idx == _find_index(before, call[p].id)
           IN  /\ idx > 1
               /\ Len(before) >= idx + 2
               /\ \E i \in (idx + 1)..Len(before) : before[i].id = call[p].id

====
